---- MODULE Spec2Model ----
(***************************************************************************)
(* A model of src/hangman.rs: the HangmanGame state, its operations and    *)
(* the main game loop that drives them from console input.                 *)
(*                                                                         *)
(* A char is a one-character string, a String or Vec<char> a sequence of   *)
(* chars (1-based here, 0-based in the source).  An Option is a sequence   *)
(* of length 0 (None) or 1 (Some).                                         *)
(***************************************************************************)
EXTENDS Integers, Sequences, FiniteSets, TLC

VARIABLES
    secret_word,      \* HangmanGame.secret_word
    display_word,     \* HangmanGame.display_word
    guessed_letters,  \* HangmanGame.guessed_letters
    wrong_guesses,    \* HangmanGame.wrong_guesses
    correct,          \* main's `correct`: what the last process_guess returned
    hint_shown,       \* the hint line the last display_game printed (Option)
    message,          \* what main or get_player_input last printed about an input
    pc,               \* where main's loop is: "display", "input" or "exit"
    result            \* what show_result reported: "none", "won" or "lost"

vars == <<secret_word, display_word, guessed_letters, wrong_guesses,
          correct, hint_shown, message, pc, result>>

game == <<secret_word, display_word, guessed_letters, wrong_guesses>>

(***************************************************************************)
(* Bounds of the model.                                                    *)
(***************************************************************************)
\* How many letters of FreshLetters the player at the console ever types.
MaxFresh == 6
\* How many letters of OpsLetterOrder a direct caller of process_guess passes.
OpsPoolSize == 7

(***************************************************************************)
(* Program constants.                                                      *)
(***************************************************************************)
max_wrong == 6
hint_threshold == 3
Placeholder == "_"

RUST == <<"R", "U", "S", "T">>
JAVA == <<"J", "A", "V", "A">>
SWIFT == <<"S", "W", "I", "F", "T">>
PYTHON == <<"P", "Y", "T", "H", "O", "N">>
GOLANG == <<"G", "O", "L", "A", "N", "G">>

word_bank ==
    (RUST :> "A systems programming language")
    @@ (JAVA :> "Write once, run anywhere")
    @@ (SWIFT :> "Apple's programming language")
    @@ (PYTHON :> "Known for its simplicity")
    @@ (GOLANG :> "Created by Google")

(***************************************************************************)
(* Characters.                                                             *)
(***************************************************************************)
LowerCase == <<"a", "b", "c", "d", "e", "f", "g", "h", "i", "j", "k", "l", "m",
               "n", "o", "p", "q", "r", "s", "t", "u", "v", "w", "x", "y", "z">>
UpperCase == <<"A", "B", "C", "D", "E", "F", "G", "H", "I", "J", "K", "L", "M",
               "N", "O", "P", "Q", "R", "S", "T", "U", "V", "W", "X", "Y", "Z">>

Range(s) == {s[i] : i \in 1..Len(s)}

\* char::is_whitespace, on the characters of the model
is_whitespace(c) == c \in {" ", "\t", "\r", "\n"}

\* char::is_alphabetic, on the characters of the model
is_alphabetic(c) == c \in Range(LowerCase) \cup Range(UpperCase) \cup {"é", "É", "ß"}

\* The length in bytes of the UTF-8 encoding of a char
len_utf8(c) == IF c \in {"é", "É", "ß"} THEN 2 ELSE 1

\* char::to_uppercase: one char may become several ("ß" becomes "SS")
char_to_uppercase(c) ==
    IF c \in Range(LowerCase)
    THEN <<UpperCase[CHOOSE i \in 1..26 : LowerCase[i] = c]>>
    ELSE IF c = "é" THEN <<"É">>
    ELSE IF c = "ß" THEN <<"S", "S">>
    ELSE <<c>>

RECURSIVE to_uppercase(_)
\* str::to_uppercase
to_uppercase(s) ==
    IF s = <<>> THEN <<>> ELSE char_to_uppercase(Head(s)) \o to_uppercase(Tail(s))

RECURSIVE trim_start(_)
trim_start(s) ==
    IF s # <<>> /\ is_whitespace(Head(s)) THEN trim_start(Tail(s)) ELSE s

RECURSIVE trim_end(_)
trim_end(s) ==
    IF s # <<>> /\ is_whitespace(s[Len(s)])
    THEN trim_end(SubSeq(s, 1, Len(s) - 1))
    ELSE s

\* str::trim
trim(s) == trim_end(trim_start(s))

RECURSIVE str_len(_)
\* String::len: the length in bytes
str_len(s) == IF s = <<>> THEN 0 ELSE len_utf8(Head(s)) + str_len(Tail(s))

\* accept_line without the is_alphabetic test
accept_line_any_char(input) ==
    LET cleaned_input == to_uppercase(trim(input))
    IN  IF str_len(cleaned_input) = 1 THEN <<cleaned_input[1]>> ELSE <<>>

\* accept_line without the trim: the newline read_line leaves counts as a character
accept_line_untrimmed(input) ==
    LET cleaned_input == to_uppercase(input)
    IN  IF str_len(cleaned_input) = 1 /\ is_alphabetic(cleaned_input[1])
        THEN <<cleaned_input[1]>>
        ELSE <<>>

(***************************************************************************)
(* get_player_input, one pass of its loop over one line read: Some(char)   *)
(* when the line is accepted and returned, None when it re-prompts.        *)
(***************************************************************************)
accept_line(input) ==
    LET cleaned_input == to_uppercase(trim(input))
    IN  IF str_len(cleaned_input) = 1 /\ is_alphabetic(cleaned_input[1])
        THEN <<cleaned_input[1]>>
        ELSE <<>>

(***************************************************************************)
(* HangmanGame                                                             *)
(***************************************************************************)
\* HashMap::keys().copied().collect(): the keys in the map's iteration order,
\* which the standard library leaves unspecified (the hasher is seeded per run)
KeyOrders ==
    {o \in [1..Cardinality(DOMAIN word_bank) -> DOMAIN word_bank] :
        \A i, j \in DOMAIN o : i # j => o[i] # o[j]}

\* reveal with a break after the first matching position
reveal_first_only(secret, display, guess) ==
    [i \in 1..Len(display) |->
        IF secret[i] = guess /\ \A j \in 1..(i - 1) : secret[j] # guess
        THEN guess
        ELSE display[i]]

\* reveal that rebuilds the display from the current guess alone
reveal_rebuilt(secret, display, guess) ==
    [i \in 1..Len(display) |-> IF secret[i] = guess THEN guess ELSE Placeholder]

\* The loop of process_guess over the secret word's positions
reveal(secret, display, guess) ==
    [i \in 1..Len(display) |-> IF secret[i] = guess THEN guess ELSE display[i]]

\* correct_guess that looks at the first letter of the secret word only
correct_guess_first(secret, guess) == secret[1] = guess

\* correct_guess at the end of that loop
correct_guess(secret, guess) == \E i \in 1..Len(secret) : secret[i] = guess

\* count_wrong with the negation of its test dropped
count_wrong_inverted(wrong, is_correct) == IF is_correct THEN wrong + 1 ELSE wrong

\* The update of wrong_guesses in process_guess
count_wrong(wrong, is_correct) == IF ~is_correct THEN wrong + 1 ELSE wrong

\* is_won that looks at the first position only
is_won_of_first(display) == display[1] # Placeholder

is_won_of(display) == Placeholder \notin Range(display)
is_won == is_won_of(display_word)

\* is_lost with > for >=
is_lost_of_strict(wrong) == wrong > max_wrong

is_lost_of(wrong) == wrong >= max_wrong
is_lost == is_lost_of(wrong_guesses)

\* display_hint with > for >=
display_hint_late(secret, wrong) ==
    IF wrong > hint_threshold
    THEN IF secret \in DOMAIN word_bank THEN <<word_bank[secret]>> ELSE <<>>
    ELSE <<>>

\* The hint display_game prints under the picture
display_hint(secret, wrong) ==
    IF wrong >= hint_threshold
    THEN IF secret \in DOMAIN word_bank THEN <<word_bank[secret]>> ELSE <<>>
    ELSE <<>>

\* already_guessed that compares with the last letter guessed only
already_guessed_last(letters, guess) ==
    letters # <<>> /\ letters[Len(letters)] = guess

\* already_guessed that looks for the letter on the display instead of in the
\* letters guessed: only a correct letter counts as guessed before
already_guessed_on_display(letters, guess) ==
    \E i \in 1..Len(display_word) : display_word[i] = guess

\* The wrong guesses remaining that show_result prints after a win
wrong_remaining(wrong) == max_wrong - wrong

\* Vec::contains in main's check of a repeated letter
already_guessed(letters, guess) == \E i \in 1..Len(letters) : letters[i] = guess

\* loop_status whose loss check fires one wrong guess late
loop_status_late(display, wrong) ==
    IF is_won_of(display) THEN "won"
    ELSE IF wrong > max_wrong THEN "lost"
    ELSE "playing"

\* loop_status without the loss check
loop_status_no_loss(display, wrong) ==
    IF is_won_of(display) THEN "won" ELSE "playing"

\* The two status checks at the top of main's loop, in their order
loop_status(display, wrong) ==
    IF is_won_of(display) THEN "won"
    ELSE IF is_lost_of(wrong) THEN "lost"
    ELSE "playing"

Init ==
    /\ \E words \in KeyOrders : secret_word = words[2 + 1]
    /\ display_word = [i \in 1..Len(secret_word) |-> Placeholder]
    /\ guessed_letters = <<>>
    /\ wrong_guesses = 0
    /\ correct = FALSE
    /\ hint_shown = <<>>
    /\ message = "none"
    /\ pc = "display"
    /\ result = "none"

\* process_guess with the increment moved into the loop, as the else branch of
\* its comparison: one wrong guess counted for every position that differs
process_guess_per_position(guess) ==
    /\ guessed_letters' = Append(guessed_letters, guess)
    /\ display_word' = reveal(secret_word, display_word, guess)
    /\ correct' = correct_guess(secret_word, guess)
    /\ wrong_guesses' =
            wrong_guesses + Cardinality({i \in 1..Len(secret_word) : secret_word[i] # guess})
    /\ UNCHANGED secret_word

process_guess(guess) ==
    /\ guessed_letters' = Append(guessed_letters, guess)
    /\ display_word' = reveal(secret_word, display_word, guess)
    /\ correct' = correct_guess(secret_word, guess)
    /\ wrong_guesses' = count_wrong(wrong_guesses, correct_guess(secret_word, guess))
    /\ UNCHANGED secret_word

(***************************************************************************)
(* The main loop.                                                          *)
(***************************************************************************)
\* The player at the console types the letters of JAVA, in any order and at any
\* time, and letters that occur in no word of the bank.  The program only ever
\* compares a guess with the letters of the secret word and with the letters
\* guessed before, so the letters outside the bank are interchangeable, and the
\* player takes a new one in the order of FreshLetters.
BankLetters == Range(JAVA)
FreshLetters == <<"Z", "X", "Q", "B", "M", "K", "C", "D", "E">>
MainPool == BankLetters \cup {FreshLetters[i] : i \in 1..MaxFresh}

next_fresh(letters) ==
    LET left == {i \in 1..MaxFresh : FreshLetters[i] \notin Range(letters)}
    IN  IF left = {} THEN {} ELSE {FreshLetters[CHOOSE i \in left : \A j \in left : i <= j]}

\* The letters the player may type next
Typable(letters) == BankLetters \cup (Range(letters) \cap MainPool) \cup next_fresh(letters)

lower_of(c) == LowerCase[CHOOSE i \in 1..26 : UpperCase[i] = c]

\* The lines read_line may deliver: each letter in either case, with its newline,
\* one of them padded with blanks, and lines get_player_input must refuse
GoodLines ==
    {<<c, "\n">> : c \in MainPool}
    \cup {<<lower_of(c), "\n">> : c \in MainPool}
    \cup {<<" ", lower_of(JAVA[2]), " ", "\r", "\n">>}
BadLines ==
    {<<>>, <<"\n">>, <<" ", "\n">>, <<"J", "A", "\n">>, <<"j", " ", "a", "\n">>,
     <<"1", "\n">>, <<"_", "\n">>, <<"é", "\n">>, <<"ß", "\n">>}
InputLines == GoodLines \cup BadLines

\* What get_player_input makes of each line
Accepted == [input \in InputLines |-> accept_line(input)]

\* The lines the player may enter next: any refused line, and any line that
\* yields a letter the player may type
LinesNow(letters) ==
    LET typable == Typable(letters)
    IN  {input \in InputLines : Accepted[input] = <<>> \/ Accepted[input][1] \in typable}

\* display_game, then the win check: show_result(&game, true); break
DisplayWon ==
    /\ pc = "display"
    /\ loop_status(display_word, wrong_guesses) = "won"
    /\ hint_shown' = display_hint(secret_word, wrong_guesses)
    /\ result' = "won"
    /\ pc' = "exit"
    /\ UNCHANGED <<game, correct, message>>

\* display_game, then the loss check: show_result(&game, false); break
DisplayLost ==
    /\ pc = "display"
    /\ loop_status(display_word, wrong_guesses) = "lost"
    /\ hint_shown' = display_hint(secret_word, wrong_guesses)
    /\ result' = "lost"
    /\ pc' = "exit"
    /\ UNCHANGED <<game, correct, message>>

\* display_game, neither check fires: on to get_player_input
DisplayPlaying ==
    /\ pc = "display"
    /\ loop_status(display_word, wrong_guesses) = "playing"
    /\ hint_shown' = display_hint(secret_word, wrong_guesses)
    /\ pc' = "input"
    /\ UNCHANGED <<game, correct, message, result>>

\* get_player_input reads a line it refuses, and prompts again
InputRejected ==
    /\ pc = "input"
    /\ \E input \in LinesNow(guessed_letters) : Accepted[input] = <<>>
    /\ message' = "Please enter exactly one letter!"
    /\ UNCHANGED <<game, correct, hint_shown, pc, result>>

\* read_line fails: the error is printed and get_player_input prompts again
InputError ==
    /\ pc = "input"
    /\ message' = "Error reading input"
    /\ UNCHANGED <<game, correct, hint_shown, pc, result>>

\* get_player_input returns a letter guessed before: main says so and continues
InputRepeated ==
    /\ pc = "input"
    /\ \E input \in LinesNow(guessed_letters) :
        /\ Accepted[input] # <<>>
        /\ already_guessed(guessed_letters, Accepted[input][1])
    /\ message' = "You already guessed"
    /\ pc' = "display"
    /\ UNCHANGED <<game, correct, hint_shown, result>>

\* get_player_input returns a new letter: main hands it to process_guess
InputGuess ==
    /\ pc = "input"
    /\ \E input \in LinesNow(guessed_letters) :
        /\ Accepted[input] # <<>>
        /\ ~already_guessed(guessed_letters, Accepted[input][1])
        /\ process_guess(Accepted[input][1])
    /\ message' = IF correct' THEN "Good guess!" ELSE "Sorry"
    /\ pc' = "display"
    /\ UNCHANGED <<hint_shown, result>>

Next ==
    \/ DisplayWon
    \/ DisplayLost
    \/ DisplayPlaying
    \/ InputRejected
    \/ InputError
    \/ InputRepeated
    \/ InputGuess

Spec == Init /\ [][Next]_vars

(***************************************************************************)
(* The operations of HangmanGame called directly, under the precondition   *)
(* the specification states for apply_guess: a letter not guessed before.  *)
(***************************************************************************)
OpsLetterOrder == <<"S", "W", "I", "F", "T", "Z", "X", "A", "Q", "B", "N", "M">>
OpsPool == {OpsLetterOrder[i] : i \in 1..OpsPoolSize}

CallProcessGuess ==
    /\ \E guess \in OpsPool :
        /\ ~already_guessed(guessed_letters, guess)
        /\ process_guess(guess)
    /\ UNCHANGED <<hint_shown, message, pc, result>>

NextOps == CallProcessGuess

SpecOps == Init /\ [][NextOps]_vars

(***************************************************************************)
(* The main loop under the claim's assumption about the player: the        *)
(* program takes its own steps, and a player who is prompted again and     *)
(* again eventually enters a well-formed letter not guessed before.        *)
(***************************************************************************)
FairSpec ==
    /\ Spec
    /\ WF_vars(DisplayWon \/ DisplayLost \/ DisplayPlaying)
    /\ SF_vars(InputGuess)

(***************************************************************************)
(* Properties.                                                             *)
(***************************************************************************)
Last(s) == s[Len(s)]

\* A step in which process_guess(c) ran
Guessed(c) == guessed_letters' = Append(guessed_letters, c)

NoRepeat(s) == \A i, j \in 1..Len(s) : i # j => s[i] # s[j]

\* C1: for every letter c of secret_word, process_guess(c) returns true, leaves
\* c (not the placeholder) at every position of display_word where secret_word
\* has c, and leaves wrong_guesses as it was.
C1_HitRevealsEveryPosition ==
    [][\A c \in Range(secret_word) :
        Guessed(c) =>
            /\ correct' = TRUE
            /\ Len(display_word') = Len(secret_word)
            /\ \A i \in 1..Len(secret_word) :
                secret_word[i] = c => display_word'[i] = c /\ display_word'[i] # Placeholder
            /\ wrong_guesses' = wrong_guesses]_vars

\* A letter that stands at two positions of the secret word was just guessed
C1_Witness ==
    /\ secret_word = JAVA
    /\ Len(guessed_letters) >= 2
    /\ Last(guessed_letters) = "A"

\* C2: for every letter c that does not occur in secret_word, process_guess(c)
\* returns false, adds exactly 1 to wrong_guesses and changes no position of
\* display_word.
C2_MissCountsOnce ==
    [][\A c \in Range(UpperCase) \ Range(secret_word) :
        Guessed(c) =>
            /\ correct' = FALSE
            /\ wrong_guesses' = wrong_guesses + 1
            /\ display_word' = display_word]_vars

\* A miss was just guessed on a display that already shows a letter
C2_Witness ==
    /\ guessed_letters # <<>>
    /\ Last(guessed_letters) \notin Range(secret_word)
    /\ \E i \in 1..Len(display_word) : display_word[i] # Placeholder
    /\ wrong_guesses >= 2

\* C3: in every state display_word is as long as secret_word, and a position
\* shows something other than the placeholder exactly when its letter of
\* secret_word is among guessed_letters, and then it shows that letter.
C3_DisplayMatchesGuesses ==
    /\ Len(display_word) = Len(secret_word)
    /\ \A i \in 1..Len(secret_word) :
        /\ display_word[i] # Placeholder <=> secret_word[i] \in Range(guessed_letters)
        /\ display_word[i] # Placeholder => display_word[i] = secret_word[i]

\* A display with revealed and hidden positions, after hits and misses
C3_Witness ==
    /\ \E i, j \in 1..Len(display_word) :
        display_word[i] = Placeholder /\ display_word[j] # Placeholder
    /\ Range(guessed_letters) \cap Range(secret_word) # {}
    /\ Range(guessed_letters) \ Range(secret_word) # {}

\* C4: in every state is_won() holds exactly when every distinct letter of
\* secret_word has been passed to process_guess; and when the letters guessed
\* are exactly the distinct letters of the secret word (S, W, I, F, T for
\* SWIFT), is_won() holds with wrong_guesses = 0.
C4_WonIffAllLettersGuessed ==
    /\ is_won <=> Range(secret_word) \subseteq Range(guessed_letters)
    /\ Range(guessed_letters) = Range(secret_word) => is_won /\ wrong_guesses = 0

\* SWIFT, guessed S, W, I, F, T in this order from a fresh game
C4_Witness ==
    /\ secret_word = SWIFT
    /\ guessed_letters = <<"S", "W", "I", "F", "T">>

\* C5: is_lost() is false while wrong_guesses < 6, is true in the state the
\* guess that brings wrong_guesses to 6 produces, and stays true over every
\* later process_guess, correct or wrong; six misses from a fresh game give
\* is_lost() and not is_won().
C5_LostAtSixAndStaysLost ==
    /\ [](wrong_guesses < 6 => ~is_lost)
    /\ [](wrong_guesses = 6 /\ Len(guessed_letters) = 6 => is_lost /\ ~is_won)
    /\ [][/\ (wrong_guesses < 6 /\ wrong_guesses' = 6) => is_lost'
          /\ is_lost => is_lost']_vars

\* A lost game on which process_guess went on to be called with a correct letter
C5_Witness ==
    /\ wrong_guesses >= 6
    /\ Len(guessed_letters) > 6
    /\ correct = TRUE
    /\ Last(guessed_letters) \in Range(secret_word)

\* C6, as claimed: after any sequence of process_guess calls that each pass a
\* letter not guessed before, 0 <= wrong_guesses <= max_wrong.
C6_Original == 0 <= wrong_guesses /\ wrong_guesses <= max_wrong

\* C6, amended: every process_guess call with a letter not guessed before that
\* is made while is_lost() is false (the only calls main makes) leaves
\* 0 <= wrong_guesses <= max_wrong; process_guess itself checks no bound.
C6_BoundedWhileNotLost ==
    [][wrong_guesses < max_wrong =>
        0 <= wrong_guesses' /\ wrong_guesses' <= max_wrong]_vars

\* The bound is reached: six wrong guesses and a correct one among the calls
C6_Witness ==
    /\ wrong_guesses = max_wrong
    /\ Len(guessed_letters) = max_wrong + 1
    /\ Last(guessed_letters) \notin Range(secret_word)

\* C7: in every state of the main loop guessed_letters holds no letter twice,
\* and process_guess is never called with a letter that is already there,
\* whatever lines are entered (repeated letters, upper and lower case).
C7_NoLetterTwice ==
    /\ [](NoRepeat(guessed_letters))
    /\ [][guessed_letters' # guessed_letters =>
            \E c \in Range(UpperCase) : Guessed(c) /\ c \notin Range(guessed_letters)]_vars

\* A letter guessed two or more guesses ago was entered again and turned away
C7_Witness ==
    /\ message = "You already guessed"
    /\ Len(guessed_letters) >= 3
    /\ pc = "input"

\* C8: in every state of the main loop is_won() and is_lost() are not both
\* true, and a finished game is reported as exactly one of won and lost, the
\* one that holds.
C8_WonXorLost ==
    /\ ~(is_won /\ is_lost)
    /\ pc = "exit" <=> result \in {"won", "lost"}
    /\ pc # "exit" => result = "none"
    /\ result = "won" => Placeholder \notin Range(display_word) /\ wrong_guesses < 6
    /\ result = "lost" => wrong_guesses >= 6 /\ Placeholder \in Range(display_word)

\* A game won on the last life
C8_Witness ==
    /\ pc = "exit"
    /\ result = "won"
    /\ wrong_guesses = max_wrong - 1

\* C9: display_game shows no hint while wrong_guesses < 3, shows the word_bank
\* description of secret_word at every display with wrong_guesses >= 3, and
\* having shown it shows it at every later display; the lookup of secret_word
\* in word_bank never fails.
C9_HintFromThreeOn ==
    /\ [](secret_word \in DOMAIN word_bank)
    /\ [](wrong_guesses < 3 => hint_shown = <<>>)
    /\ [](wrong_guesses >= 3 /\ pc # "display" => hint_shown = <<word_bank[secret_word]>>)
    /\ [][hint_shown # <<>> => hint_shown' = hint_shown]_vars

\* The display right after the third wrong guess
C9_Witness ==
    /\ pc = "input"
    /\ wrong_guesses = 3
    /\ hint_shown # <<>>
    /\ message = "Sorry"

\* C10: if the player, prompted again and again, eventually enters a
\* well-formed letter not guessed before, the main loop reaches a win or a
\* loss, reports it and exits.
C10_GameEnds == <>(pc = "exit" /\ result \in {"won", "lost"})

\* A game that ended lost after at least one correct guess
C10_Witness ==
    /\ pc = "exit"
    /\ result = "lost"
    /\ \E i \in 1..Len(display_word) : display_word[i] # Placeholder
    /\ Len(guessed_letters) > max_wrong

\* C11, as claimed: new() picks the secret word deterministically, the same at
\* every construction, and the word is SWIFT, the entry at index 2 of the keys.
C11_Original == secret_word = SWIFT

\* A line as the claim calls it malformed: once trimmed it is empty, has more
\* than one character, or is one character that is not alphabetic
Malformed(input) ==
    LET t == trim(input) IN Len(t) # 1 \/ ~is_alphabetic(t[1])

\* C12: a malformed line or a read error never reaches process_guess:
\* get_player_input prompts again and the game state stays as it was; every
\* character get_player_input returns is one upper-case letter A-Z, the
\* upper-case form of the letter entered.
C12_MalformedNeverGuessed ==
    /\ [](\A input \in InputLines :
            /\ Malformed(input) => Accepted[input] = <<>>
            /\ Accepted[input] # <<>> =>
                /\ Len(Accepted[input]) = 1
                /\ Accepted[input][1] \in Range(UpperCase)
                /\ trim(input)[1] \in Range(LowerCase) =>
                        lower_of(Accepted[input][1]) = trim(input)[1])
    /\ [][pc = "input" /\ pc' = "input" => game' = game]_vars
    /\ [][message' \in {"Please enter exactly one letter!", "Error reading input"} =>
            game' = game]_vars
    /\ [][guessed_letters' # guessed_letters =>
            \E input \in InputLines :
                ~Malformed(input) /\ Guessed(to_uppercase(trim(input))[1])]_vars

\* In the middle of a game a line was refused and the player prompted again
C12_Witness ==
    /\ pc = "input"
    /\ message = "Please enter exactly one letter!"
    /\ wrong_guesses >= 1
    /\ \E i \in 1..Len(display_word) : display_word[i] # Placeholder

\* The positions of display_word that show a letter
Revealed(display) == {i \in 1..Len(display) : display[i] # Placeholder}

\* C13: over every process_guess step wrong_guesses does not decrease and no
\* revealed position of display_word goes back to the placeholder; a step with
\* a new letter strictly increases exactly one of the two: wrong_guesses by 1,
\* or the set of revealed positions by at least one position.
C13_MonotoneProgress ==
    [][/\ wrong_guesses' >= wrong_guesses
       /\ Revealed(display_word) \subseteq Revealed(display_word')
       /\ (\E c \in Range(UpperCase) \ Range(guessed_letters) : Guessed(c)) =>
            \/ /\ wrong_guesses' = wrong_guesses + 1
               /\ Revealed(display_word') = Revealed(display_word)
            \/ /\ wrong_guesses' = wrong_guesses
               /\ Revealed(display_word') # Revealed(display_word)]_vars

\* Hits and misses in turn: a hit, then misses, then another hit
C13_Witness ==
    /\ Cardinality(Revealed(display_word)) >= 2
    /\ wrong_guesses >= 2
    /\ Len(guessed_letters) >= 4
    /\ guessed_letters[1] \in Range(secret_word)
    /\ guessed_letters[2] \notin Range(secret_word)
    /\ Last(guessed_letters) \in Range(secret_word)

\* C14: won and lost are terminal in the main loop: from a state in which
\* is_won() or is_lost() holds no line is read and process_guess is not called
\* again, and the loop has exited for good once it has reported; so
\* wrong_guesses never exceeds 6, a lost game never becomes won and a won game
\* never becomes lost.
C14_TerminalStates ==
    /\ [](wrong_guesses <= 6)
    /\ [](is_won \/ is_lost => pc # "input")
    /\ [][is_won \/ is_lost => game' = game /\ pc' = "exit"]_vars
    /\ [][pc = "exit" => vars' = vars]_vars
    /\ [][(is_lost => ~is_won') /\ (is_won => ~is_lost')]_vars

\* Six wrong guesses in a row, reported as a loss
C14_Witness ==
    /\ pc = "exit"
    /\ result = "lost"
    /\ guessed_letters # <<>>
    /\ Len(guessed_letters) = max_wrong
    /\ Revealed(display_word) = {}

\* C15: a letter that is already in guessed_letters, guessed right or wrong
\* before, is turned away by the main loop with the whole game state left as
\* it was: no step hands such a letter to process_guess, and the step that
\* reports the repeat changes none of display_word, guessed_letters and
\* wrong_guesses, so a repeated wrong letter costs no second wrong guess.
C15_RepeatChangesNothing ==
    [][/\ \A c \in Range(guessed_letters) : ~Guessed(c)
       /\ message' = "You already guessed" /\ pc = "input" =>
            /\ game' = game
            /\ guessed_letters # <<>>
            /\ pc' = "display"
       /\ pc = "input" /\ pc' = "display" /\ message' # "You already guessed" =>
            \E c \in Range(UpperCase) \ Range(guessed_letters) : Guessed(c)]_vars

\* A repeat turned away when every letter guessed so far was wrong
C15_Witness ==
    /\ message = "You already guessed"
    /\ pc = "display"
    /\ wrong_guesses >= 2
    /\ Range(guessed_letters) \cap Range(secret_word) = {}
    /\ Len(guessed_letters) = wrong_guesses

\* The distinct letters of the secret word that display_word shows
ShownLetters == {display_word[i] : i \in Revealed(display_word)}

\* C16: in every state of the main loop the number of accepted guesses is the
\* number of wrong guesses plus the number of distinct letters of secret_word
\* that display_word shows.
C16_GuessesAccounted ==
    Len(guessed_letters) = wrong_guesses + Cardinality(ShownLetters)

\* Two letters shown, one of them at two positions, and three wrong guesses
C16_Witness ==
    /\ Cardinality(ShownLetters) = 2
    /\ Cardinality(Revealed(display_word)) = 3
    /\ wrong_guesses = 3

\* The number of distinct letters of the secret word
DistinctLetters == Cardinality(Range(secret_word))

\* C17: a game run through the main loop ends after at most d + 5 accepted
\* guesses, d the number of distinct letters of secret_word: no state has more
\* than d + 5 letters in guessed_letters, and a state with d + 5 is won or lost.
C17_AtMostDPlusFiveGuesses ==
    /\ Len(guessed_letters) <= DistinctLetters + 5
    /\ Len(guessed_letters) = DistinctLetters + 5 => is_won \/ is_lost
    /\ secret_word = SWIFT => Len(guessed_letters) <= 10

\* The longest game: d + 5 guesses
C17_Witness ==
    /\ Len(guessed_letters) = DistinctLetters + 5
    /\ pc = "exit"

\* C18: whenever the main loop reports a win, the number of wrong guesses
\* remaining that show_result prints, max_wrong - wrong_guesses, is between 1
\* and 6: no game is reported won with wrong_guesses = 6.
C18_WinLeavesALife ==
    result = "won" =>
        /\ 1 <= wrong_remaining(wrong_guesses)
        /\ wrong_remaining(wrong_guesses) <= 6
        /\ wrong_guesses # 6

\* A win without a single wrong guess: 6 remaining
C18_Witness ==
    /\ result = "won"
    /\ wrong_guesses = 0
    /\ pc = "exit"

====
